---- MODULE Spec2Model ----
(***************************************************************************)
(* Model of inference_server.py: the startup sequence (primary and soil    *)
(* classifier loading, label reconciliation), and the request handlers     *)
(* /predict, /soil-predict, /soil-predict-debug, /health and /.            *)
(*                                                                         *)
(* Numbers.  A score is NaN, +Infinity, -Infinity or a finite value.  A    *)
(* finite raw score is held in thousandths (0.5 is Fin(500)).  A           *)
(* post-processed vector is held as numerators over one common             *)
(* denominator: an unchanged vector keeps its thousandths over 1000, a     *)
(* softmax result holds exp(x - max) over the sum of these.  exp is        *)
(* computed in fixed point (Taylor series), so it is an approximation of   *)
(* np.exp, but the division by the sum is exact.                           *)
(*                                                                         *)
(* Indices.  Python indices are 0-based, sequences here are 1-based: the   *)
(* Python index i is position i + 1.                                       *)
(***************************************************************************)
EXTENDS Integers, Sequences, FiniteSets, TLC

(***************************************************************************)
(* Bounds of the model.                                                    *)
(***************************************************************************)
\* the clock (milliseconds) runs from 0 to MaxClock
MaxClock == 1
\* number of requests that can arrive in the concurrent specification
MaxReq == 2
\* a score vector longer than this is one of the rotations of
\* 0.0, 0.1, 0.2, ... (all entries different, the maximum at any index)
LongVector == 4

(***************************************************************************)
(* Scores.                                                                 *)
(***************************************************************************)
Fin(n) == [t |-> "fin", n |-> n]
NaN == [t |-> "nan", n |-> 0]
PosInf == [t |-> "pinf", n |-> 0]
NegInf == [t |-> "ninf", n |-> 0]

IsFin(x) == x.t = "fin"
IsNaN(x) == x.t = "nan"
IsInf(x) == x.t \in {"pinf", "ninf"}

\* 1.0 in thousandths
One == 1000
\* the tolerance 0.01 in thousandths
Tolerance == 10
\* fixed-point scale of exp: ExpFix(0) = ExpScale
ExpScale == 10000

\* finite raw scores a classifier may return, in thousandths
FiniteScores == {-500, 0, 500, 520, 1500}
ScoreVals == {NaN, PosInf, NegInf} \cup {Fin(n) : n \in FiniteScores}
\* finite scores only: the reduced domain of the concurrent specification
SmallScoreVals == {Fin(0), Fin(500)}

Abs(i) == IF i < 0 THEN -i ELSE i
Min2(a, b) == IF a < b THEN a ELSE b

RECURSIVE SeqSum(_)
SeqSum(s) == IF s = << >> THEN 0 ELSE Head(s) + SeqSum(Tail(s))

Range(s) == {s[i] : i \in DOMAIN s}

(***************************************************************************)
(* numpy on a vector of scores.                                            *)
(***************************************************************************)
\* order of np.sort / np.argsort / np.max on floats: -inf < finite < +inf,
\* NaN last
Rank(x) == CASE x.t = "ninf" -> 0 [] x.t = "fin" -> 1 [] x.t = "pinf" -> 2 [] OTHER -> 3
ScoreLess(a, b) == \/ Rank(a) < Rank(b)
                   \/ Rank(a) = 1 /\ Rank(b) = 1 /\ a.n < b.n
ScoreLeq(a, b) == a = b \/ ScoreLess(a, b)

\* np.sum: NaN if any entry is NaN or both infinities occur
NpSum(arr) ==
    IF \E i \in DOMAIN arr : IsNaN(arr[i]) THEN NaN
    ELSE IF PosInf \in Range(arr) /\ NegInf \in Range(arr) THEN NaN
    ELSE IF PosInf \in Range(arr) THEN PosInf
    ELSE IF NegInf \in Range(arr) THEN NegInf
    ELSE Fin(SeqSum([i \in DOMAIN arr |-> arr[i].n]))

\* np.max: NaN propagates
NpMax(arr) ==
    IF \E i \in DOMAIN arr : IsNaN(arr[i]) THEN NaN
    ELSE CHOOSE x \in Range(arr) : \A y \in Range(arr) : ScoreLeq(y, x)

\* np.isnan(a).any(), np.isinf(a).any()
AnyNaN(arr) == \E i \in DOMAIN arr : IsNaN(arr[i])
AnyInf(arr) == \E i \in DOMAIN arr : IsInf(arr[i])

\* len(np.unique(a))
NpUniqueCount(arr) == Cardinality(Range(arr))

\* np.argmax: the first position of the maximum (of the first NaN, if any)
NpArgmax(arr) ==
    LET m == NpMax(arr)
    IN  CHOOSE i \in DOMAIN arr :
            /\ arr[i] = m
            /\ \A j \in DOMAIN arr : arr[j] = m => i <= j

\* exp(x / 1000) * ExpScale for x >= 0, by the Taylor series
RECURSIVE ExpSeries(_, _, _)
ExpSeries(x, term, k) ==
    IF term = 0 THEN 0
    ELSE term + ExpSeries(x, (term * x) \div (One * k), k + 1)

\* np.exp(d) for a finite d <= 0 in thousandths: ExpScale / exp(-d)
ExpFix(d) == (ExpScale * ExpScale) \div ExpSeries(-d, ExpScale, 1)

\* mutant of SumFarFromOne: a tolerance of 0.1 in place of 0.01
SumFarFromOneLoose(pred_sum) ==
    CASE IsNaN(pred_sum) -> FALSE
      [] IsInf(pred_sum) -> TRUE
      [] OTHER -> Abs(pred_sum.n - One) > 10 * Tolerance

\* abs(pred_sum - 1.0) > 0.01; a comparison with NaN is False
SumFarFromOne(pred_sum) ==
    CASE IsNaN(pred_sum) -> FALSE
      [] IsInf(pred_sum) -> TRUE
      [] OTHER -> Abs(pred_sum.n - One) > Tolerance

\* exp_preds = np.exp(pred_array - np.max(pred_array))
\* (called on vectors without NaN only: a NaN makes the sum NaN)
ExpPreds(arr) ==
    LET m == NpMax(arr)
    IN  [i \in DOMAIN arr |->
            CASE IsFin(m) /\ IsFin(arr[i]) -> Fin(ExpFix(arr[i].n - m.n))
              [] IsFin(m) -> Fin(0)                    \* exp(-inf - m)
              [] m = PosInf /\ arr[i] # PosInf -> Fin(0) \* exp(x - inf)
              [] OTHER -> NaN]                         \* exp(inf - inf)

\* pred_array = exp_preds / np.sum(exp_preds)
Softmax(arr) ==
    LET e == ExpPreds(arr)
        s == NpSum(e)
    IN  IF IsNaN(s)
        THEN [v |-> [i \in DOMAIN arr |-> NaN], den |-> 1]
        ELSE [v |-> e, den |-> s.n]

\* the post-processed vector: softmax if the sum is not close to 1
PostProcess(raw) ==
    IF SumFarFromOne(NpSum(raw))
    THEN Softmax(raw)
    ELSE [v |-> raw, den |-> One]

(***************************************************************************)
(* np.argsort.  The default sort of np.argsort is not stable, so any       *)
(* ascending order of the entries can come out: equal entries in any       *)
(* order.  The same array sorts the same way each time it is sorted in one *)
(* request, so a handler draws one outcome per array.                      *)
(***************************************************************************)
MinIdx(arr, S) == {i \in S : \A j \in S : ScoreLeq(arr[i], arr[j])}

RECURSIVE ArgsortFrom(_, _)
ArgsortFrom(arr, S) ==
    IF S = {} THEN {<< >>}
    ELSE UNION {{<<i>> \o p : p \in ArgsortFrom(arr, S \ {i})} : i \in MinIdx(arr, S)}

ArgsortOutcomes(arr) == ArgsortFrom(arr, DOMAIN arr)

\* order[-k:][::-1]
LastKReversed(order, k) ==
    LET n == Len(order)
    IN  [i \in 1..Min2(k, n) |-> order[n + 1 - i]]

\* pred_array[:n]
Prefix(arr, n) == SubSeq(arr, 1, Min2(n, Len(arr)))

(***************************************************************************)
(* Labels.  The configured label at Python index i is the number i + 1;    *)
(* the generated label "Unknown_Class_<k>" is the number -k.               *)
(***************************************************************************)
\* len(CLASS_NAMES) as written in the source
NumClassNames == 39
\* len(SOIL_CLASS_NAMES) as written in the source
NumSoilClassNames == 5

ConfiguredClassNames == [i \in 1..NumClassNames |-> i]
ConfiguredSoilClassNames == [i \in 1..NumSoilClassNames |-> i]
UnknownClass(k) == -k
NoLabel == 0

\* SOIL_RECOMMENDATIONS: the labels that have a record
ConfiguredSoilRecommendations == {1, 2, 3, 4, 5}

\* the "Verify class count" block
RECURSIVE PadClassNames(_, _)
PadClassNames(names, num_classes) ==
    IF Len(names) >= num_classes THEN names
    ELSE PadClassNames(Append(names, UnknownClass(Len(names) + 1)), num_classes)

ReconcileClassNames(names, num_classes) ==
    IF num_classes # 0 /\ Len(names) # num_classes
    THEN IF num_classes > Len(names)
         THEN PadClassNames(names, num_classes)
         ELSE SubSeq(names, 1, num_classes)
    ELSE names

(***************************************************************************)
(* The environment: what the model files hold, what a client uploads.      *)
(***************************************************************************)
\* output dimensionality C of the disease model file
ModelDims == {1, 2, 4}
\* output dimensionality C of the soil model file
SoilModelDims == {1, 3, 6}
\* uploaded bytes: decodable images, and bytes that are no image
UploadBytes == {"img", "garbage"}
Decodable(image_bytes) == image_bytes # "garbage"
\* file.content_type: None, "image/png", "text/plain"
ContentTypes == {"none", "image/png", "text/plain"}
Endpoints == {"/predict", "/soil-predict", "/soil-predict-debug", "/health", "/"}

\* file.content_type.startswith("image/")
StartsWithImage(content_type) == content_type \in {"image/png"}
\* not file.content_type or not file.content_type.startswith("image/")
NotAnImage(content_type) == content_type = "none" \/ ~StartsWithImage(content_type)

NoModel == [loaded |-> FALSE, C |-> 0]
Loaded(c) == [loaded |-> TRUE, C |-> c]

\* a model file: absent; present but load_model raises ("corrupt"); loads but
\* predict raises on the dummy input ("broken"); loads and predicts ("good")
ModelFiles(dims) ==
    {[kind |-> "absent", C |-> 0], [kind |-> "corrupt", C |-> 0]}
        \cup {[kind |-> k, C |-> c] : k \in {"broken", "good"}, c \in dims}

\* mutant of LoadPrimary: a failed dummy prediction is not fatal
LoadPrimaryIgnoresSelfTest(file) ==
    IF file.kind \in {"absent", "corrupt"} THEN [model |-> NoModel, exit |-> 1]
    ELSE [model |-> Loaded(file.C), exit |-> -1]

\* lines 41-88: sys.exit(1) unless the file exists, loads and passes the
\* dummy prediction; exit is -1 when the process goes on
LoadPrimary(file) ==
    IF file.kind = "absent" THEN [model |-> NoModel, exit |-> 1]
    ELSE IF file.kind = "corrupt" THEN [model |-> NoModel, exit |-> 1]
    ELSE IF file.kind = "broken" THEN [model |-> Loaded(file.C), exit |-> 1]
    ELSE [model |-> Loaded(file.C), exit |-> -1]

\* mutant of LoadSoil: the except branch does not reset soil_model
LoadSoilKeepsFailed(file) ==
    IF file.kind \in {"absent", "corrupt"} THEN NoModel ELSE Loaded(file.C)

\* lines 163-183: soil_model stays None unless the file exists, loads and
\* passes the dummy prediction
LoadSoil(file) ==
    IF file.kind = "absent" THEN NoModel
    ELSE IF file.kind \in {"corrupt", "broken"} THEN NoModel
    ELSE Loaded(file.C)

(***************************************************************************)
(* Request ids, file paths, responses.                                     *)
(***************************************************************************)
NoId == [prefix |-> "", ms |-> -1]
\* f"REQ_{int(time.time() * 1000)}", f"SOIL_REQ_{...}"
RequestId(prefix, ms) == [prefix |-> prefix, ms |-> ms]
\* f"/tmp/soil_upload_{int(time.time()*1000)}.jpg", f"/tmp/soil_debug_{...}.jpg"
NoPath == [prefix |-> "", ms |-> -1]
DebugPath(prefix, ms) == [prefix |-> prefix, ms |-> ms]
TmpPaths == {DebugPath(p, t) : p \in {"soil_upload", "soil_debug"}, t \in 0..MaxClock}

NoHeaders ==
    [cache_control |-> "", pragma |-> "", expires |-> "",
     x_prediction_source |-> "", x_request_id |-> NoId]
\* the five headers set on the JSONResponse of a prediction
NoCacheHeaders(source, request_id) ==
    [cache_control |-> "no-store, no-cache, must-revalidate, max-age=0",
     pragma |-> "no-cache", expires |-> "0",
     x_prediction_source |-> source, x_request_id |-> request_id]

EmptyBody ==
    [label |-> NoLabel, confidence |-> Fin(0), den |-> 1, top |-> << >>,
     recommendations |-> FALSE, request_id |-> NoId, debug_file_path |-> NoPath,
     model_file |-> "", unique_values_count |-> 0,
     model_loaded |-> FALSE, soil_model_loaded |-> FALSE,
     num_classes |-> 0, soil_classes |-> 0]

\* exc: the exception that ended the handler ("" if none, or if the handler
\* raised an HTTPException itself)
NoResponse ==
    [status |-> 0, detail |-> "", exc |-> "", headers |-> NoHeaders, body |-> EmptyBody]
\* raise HTTPException(status_code=..., detail=...): no extra headers
HTTPException(status, detail) ==
    [status |-> status, detail |-> detail, exc |-> "", headers |-> NoHeaders,
     body |-> EmptyBody]
\* an exception that leaves the handler: the framework answers 500
InternalServerError ==
    [status |-> 500, detail |-> "Internal Server Error", exc |-> "ValueError",
     headers |-> NoHeaders, body |-> EmptyBody]

\* mutant of PredictionFailed: the except block returns the error as a
\* normal response
PredictionFailedReturned(exc) ==
    [status |-> 200, detail |-> "Soil prediction failed", exc |-> exc,
     headers |-> NoHeaders, body |-> EmptyBody]

\* predict_disease, predict_soil: `except Exception as e` at the end of the
\* handler raises HTTPException(500, f"Soil prediction failed: {str(e)}")
PredictionFailed(exc) ==
    [HTTPException(500, "Soil prediction failed") EXCEPT !.exc = exc]

\* predict_soil_debug: `except Exception as e` raises HTTPException(500, str(e))
DebugPredictionFailed(exc) ==
    [HTTPException(500, "str(e)") EXCEPT !.exc = exc]

\* json.dumps(..., allow_nan=False) accepts finite floats only
JsonCompliant(scores) == \A i \in DOMAIN scores : IsFin(scores[i])

\* predict_soil_debug returns a dict under the annotation Dict[str, Any]:
\* the framework serialises it, and the installed version (the repository
\* pins none) decides what a NaN or an Infinity becomes: "null" (written as
\* null, the response is a 200) or "error" (json.dumps(allow_nan=False)
\* raises outside the handler, the response is a 500)
NonFiniteSerialisations == {"null", "error"}
Null == [t |-> "null", n |-> 0]
JsonFloat(x) == IF IsFin(x) THEN x ELSE Null

\* with open(debug_path, "wb") as f: f.write(image_bytes)
\* "ok": the file holds the bytes; "open_fails": open raises, the file is
\* as it was; "write_fails": open has truncated the file, then write raises
\* with nothing written; "write_fails_partway": write raises after a part
\* of the bytes reached the file (file size limit, disk full)
WriteOutcomes == {"ok", "open_fails", "write_fails", "write_fails_partway"}
\* a non-empty proper prefix of the uploaded bytes
WrittenPart(image_bytes) ==
    IF image_bytes = "img" THEN "im"
    ELSE IF image_bytes = "garbage" THEN "garb"
    ELSE ""
WriteDebugFile(files, path, image_bytes, write) ==
    IF write = "ok" THEN [files EXCEPT ![path] = image_bytes]
    ELSE IF write = "write_fails" THEN [files EXCEPT ![path] = ""]
    ELSE IF write = "write_fails_partway"
    THEN [files EXCEPT ![path] = WrittenPart(image_bytes)]
    ELSE files

NoPred == [v |-> << >>, den |-> 1]
NewRequest ==
    [st |-> "new", endpoint |-> "", content_type |-> "none", image_bytes |-> "",
     request_id |-> NoId, trace |-> << >>,
     preprocess_calls |-> 0, model_calls |-> 0, soil_model_calls |-> 0,
     write_failed |-> FALSE, raw |-> << >>, pred |-> NoPred, resp |-> NoResponse]

(***************************************************************************)
(* What a classifier call can do: raise, or return a vector of C scores.   *)
(***************************************************************************)
ClassifierOutcomes(C, vals) ==
    LET vectors ==
            IF C > LongVector
            THEN {[k \in 1..C |-> Fin(((k + shift) % C) * 100)] : shift \in 0..(C - 1)}
            ELSE [1..C -> vals]
    IN  {[raises |-> TRUE, out |-> << >>]}
            \cup {[raises |-> FALSE, out |-> v] : v \in vectors}

(***************************************************************************)
(* predict_disease, from `await file.read()` to the response.              *)
(* r: the request; names: CLASS_NAMES; outcome: what model.predict does;   *)
(* order: the outcome of np.argsort(pred_array[:len(CLASS_NAMES)]).        *)
(***************************************************************************)
PredictDiseaseRest(r, names, outcome, order) ==
    LET pred == PostProcess(outcome.out)
        pred_array == pred.v
        argmax == NpArgmax(pred_array)
        valid_preds == Prefix(pred_array, Len(names))
        \* "Ensure valid index"
        top_idx == IF argmax > Len(names) THEN NpArgmax(valid_preds) ELSE argmax
        top_3_indices == LastKReversed(order, 3)
        top_3 == [k \in DOMAIN top_3_indices |->
                     [label |-> names[top_3_indices[k]],
                      confidence |-> pred_array[top_3_indices[k]]]]
        Failed(stages, resp) ==
            [r EXCEPT !.st = "done", !.trace = @ \o stages \o <<"failed">>,
                      !.preprocess_calls = 1,
                      !.model_calls = IF "inferring" \in Range(stages) THEN 1 ELSE 0,
                      !.raw = IF "postprocessing" \in Range(stages) THEN outcome.out ELSE << >>,
                      !.pred = IF "postprocessing" \in Range(stages) THEN pred ELSE NoPred,
                      !.resp = resp]
    IN  IF ~Decodable(r.image_bytes)
        THEN Failed(<<"preprocessing">>, HTTPException(400, "Invalid image"))
        ELSE IF outcome.raises
        THEN Failed(<<"preprocessing", "inferring">>, PredictionFailed("classifier"))
        ELSE IF AnyNaN(pred_array)
        THEN Failed(<<"preprocessing", "inferring", "postprocessing">>,
                    HTTPException(500, "Model prediction failed: NaN values"))
        ELSE IF AnyInf(pred_array)
        THEN Failed(<<"preprocessing", "inferring", "postprocessing">>,
                    HTTPException(500, "Model prediction failed: Inf values"))
        ELSE IF NpUniqueCount(pred_array) = 1
        THEN Failed(<<"preprocessing", "inferring", "postprocessing">>,
                    HTTPException(500, "Model prediction failed: All predictions are identical"))
        ELSE IF Len(names) = 0
        THEN \* np.argmax of an empty slice raises
             Failed(<<"preprocessing", "inferring", "postprocessing">>,
                    PredictionFailed("ValueError"))
        ELSE [r EXCEPT
                !.st = "done",
                !.trace = @ \o <<"preprocessing", "inferring", "postprocessing", "responding">>,
                !.preprocess_calls = 1, !.model_calls = 1,
                !.raw = outcome.out, !.pred = pred,
                !.resp = [status |-> 200, detail |-> "", exc |-> "",
                          headers |-> NoCacheHeaders("keras-model", r.request_id),
                          body |-> [EmptyBody EXCEPT
                                      !.label = names[top_idx],
                                      !.confidence = pred_array[top_idx],
                                      !.den = pred.den,
                                      !.top = top_3,
                                      !.request_id = r.request_id,
                                      !.model_file = "plant_disease_recog_model_pwp.keras"]]]

(***************************************************************************)
(* predict_soil, from `await file.read()` to the response.                 *)
(* names: SOIL_CLASS_NAMES; recs: SOIL_RECOMMENDATIONS; debug_path: the    *)
(* path of the debug copy, NoPath if the write failed; order: the outcome  *)
(* of np.argsort(pred_array).                                              *)
(***************************************************************************)
PredictSoilRest(r, names, recs, debug_path, outcome, order) ==
    LET pred == PostProcess(outcome.out)
        pred_array == pred.v
        top_idx == NpArgmax(pred_array)
        top_5_indices == LastKReversed(order, 5)
        top_3_indices == LastKReversed(order, 3)
        top_3 == [k \in DOMAIN top_3_indices |->
                     [label |-> names[top_3_indices[k]],
                      confidence |-> pred_array[top_3_indices[k]]]]
        \* SOIL_CLASS_NAMES[top_idx], SOIL_CLASS_NAMES[idx] raise IndexError
        IndexError == \/ top_idx > Len(names)
                      \/ \E k \in DOMAIN top_5_indices : top_5_indices[k] > Len(names)
        Failed(stages, resp) ==
            [r EXCEPT !.st = "done", !.trace = @ \o stages \o <<"failed">>,
                      !.write_failed = (debug_path = NoPath),
                      !.preprocess_calls = 1,
                      !.soil_model_calls = IF "inferring" \in Range(stages) THEN 1 ELSE 0,
                      !.raw = IF "postprocessing" \in Range(stages) THEN outcome.out ELSE << >>,
                      !.pred = IF "postprocessing" \in Range(stages) THEN pred ELSE NoPred,
                      !.resp = resp]
    IN  IF ~Decodable(r.image_bytes)
        THEN Failed(<<"preprocessing">>, HTTPException(400, "Invalid image"))
        ELSE IF outcome.raises
        THEN Failed(<<"preprocessing", "inferring">>, PredictionFailed("classifier"))
        ELSE IF AnyNaN(pred_array)
        THEN Failed(<<"preprocessing", "inferring", "postprocessing">>,
                    HTTPException(500, "Model prediction failed: NaN values"))
        ELSE IF NpUniqueCount(pred_array) = 1
        THEN Failed(<<"preprocessing", "inferring", "postprocessing">>,
                    HTTPException(500, "Model prediction failed: All predictions identical"))
        ELSE IF IndexError
        THEN Failed(<<"preprocessing", "inferring", "postprocessing">>,
                    PredictionFailed("IndexError"))
        ELSE IF ~JsonCompliant(<<pred_array[top_idx]>> \o [k \in DOMAIN top_3 |-> top_3[k].confidence])
        THEN \* the response dict is built ("Step 5") and then
             \* JSONResponse(content=response) raises ValueError inside the try
             Failed(<<"preprocessing", "inferring", "postprocessing", "responding">>,
                    PredictionFailed("ValueError"))
        ELSE [r EXCEPT
                !.st = "done",
                !.trace = @ \o <<"preprocessing", "inferring", "postprocessing", "responding">>,
                !.write_failed = (debug_path = NoPath),
                !.preprocess_calls = 1, !.soil_model_calls = 1,
                !.raw = outcome.out, !.pred = pred,
                !.resp = [status |-> 200, detail |-> "", exc |-> "",
                          headers |-> NoCacheHeaders("keras-soil-model", r.request_id),
                          body |-> [EmptyBody EXCEPT
                                      !.label = names[top_idx],
                                      !.confidence = pred_array[top_idx],
                                      !.den = pred.den,
                                      !.top = top_3,
                                      !.recommendations = (names[top_idx] \in recs),
                                      !.request_id = r.request_id,
                                      !.debug_file_path = debug_path,
                                      !.model_file = "soil_model.keras"]]]

(***************************************************************************)
(* predict_soil_debug, from `await file.read()` to the response.           *)
(* write_ok: whether open(debug_path, "wb") and the write succeed;         *)
(* non_finite: what the framework's serialiser does with NaN and Infinity. *)
(***************************************************************************)
PredictSoilDebugRest(r, names, debug_path, write_ok, non_finite, outcome, order) ==
    LET pred == PostProcess(outcome.out)
        pred_array == pred.v
        top_5_indices == LastKReversed(order, 5)
        top_5 == [k \in DOMAIN top_5_indices |->
                     [label |-> names[top_5_indices[k]],
                      confidence |-> pred_array[top_5_indices[k]]]]
        IndexError == \E k \in DOMAIN top_5_indices : top_5_indices[k] > Len(names)
        Failed(stages, resp) ==
            [r EXCEPT !.st = "done", !.trace = @ \o stages \o <<"failed">>,
                      !.write_failed = ~write_ok,
                      !.preprocess_calls = IF "preprocessing" \in Range(stages) THEN 1 ELSE 0,
                      !.soil_model_calls = IF "inferring" \in Range(stages) THEN 1 ELSE 0,
                      !.raw = IF "postprocessing" \in Range(stages) THEN outcome.out ELSE << >>,
                      !.pred = IF "postprocessing" \in Range(stages) THEN pred ELSE NoPred,
                      !.resp = resp]
    IN  IF ~write_ok
        THEN \* the write is not guarded: the handler's except turns it into a 500
             Failed(<< >>, DebugPredictionFailed("OSError"))
        ELSE IF ~Decodable(r.image_bytes)
        THEN \* the HTTPException(400) of preprocess_image is caught by
             \* `except Exception` and raised again as a 500
             Failed(<<"preprocessing">>, DebugPredictionFailed("HTTPException"))
        ELSE IF outcome.raises
        THEN Failed(<<"preprocessing", "inferring">>, DebugPredictionFailed("classifier"))
        ELSE IF IndexError
        THEN Failed(<<"preprocessing", "inferring", "postprocessing">>,
                    DebugPredictionFailed("IndexError"))
        ELSE IF ~JsonCompliant(pred_array) /\ non_finite = "error"
        THEN \* the returned dict holds NaN or Infinity (prediction_sum,
             \* array_stats): serialising it fails outside the handler
             Failed(<<"preprocessing", "inferring", "postprocessing">>, InternalServerError)
        ELSE [r EXCEPT
                !.st = "done",
                !.trace = @ \o <<"preprocessing", "inferring", "postprocessing", "responding">>,
                !.preprocess_calls = 1, !.soil_model_calls = 1,
                !.raw = outcome.out, !.pred = pred,
                !.resp = [status |-> 200, detail |-> "", exc |-> "", headers |-> NoHeaders,
                          body |-> [EmptyBody EXCEPT
                                      !.den = pred.den,
                                      !.top = [k \in DOMAIN top_5 |->
                                                 [top_5[k] EXCEPT !.confidence = JsonFloat(@)]],
                                      !.debug_file_path = debug_path,
                                      !.unique_values_count = NpUniqueCount(pred_array)]]]

(***************************************************************************)
(* The handlers up to their first suspension point, `await file.read()`.   *)
(***************************************************************************)
Arrived(endpoint, content_type, image_bytes) ==
    [NewRequest EXCEPT !.endpoint = endpoint, !.content_type = content_type,
                       !.image_bytes = image_bytes, !.trace = <<"received">>]

Reject(r, resp) ==
    [r EXCEPT !.st = "done", !.trace = @ \o <<"failed">>, !.resp = resp]

\* mutant of PredictDiseaseEntry: the file type is not validated
PredictDiseaseEntryUnvalidated(r, ms) ==
    [r EXCEPT !.request_id = RequestId("REQ", ms), !.st = "reading",
              !.trace = @ \o <<"validated">>]

\* predict_disease: request id, then "Validate file type"
PredictDiseaseEntry(r, ms) ==
    LET q == [r EXCEPT !.request_id = RequestId("REQ", ms)]
    IN  IF NotAnImage(q.content_type)
        THEN Reject(q, HTTPException(400, "File must be an image"))
        ELSE [q EXCEPT !.st = "reading", !.trace = @ \o <<"validated">>]

\* mutant of PredictSoilEntry: the file type is not validated
PredictSoilEntryUnvalidated(r, soil, ms) ==
    IF ~soil.loaded
    THEN Reject(r, HTTPException(503, "Soil model not loaded. Check server logs."))
    ELSE [r EXCEPT !.request_id = RequestId("SOIL_REQ", ms), !.st = "reading",
                   !.trace = @ \o <<"validated">>]

\* predict_soil: the soil_model check, request id, then "Validate file type"
PredictSoilEntry(r, soil, ms) ==
    IF ~soil.loaded
    THEN Reject(r, HTTPException(503, "Soil model not loaded. Check server logs."))
    ELSE LET q == [r EXCEPT !.request_id = RequestId("SOIL_REQ", ms)]
         IN  IF NotAnImage(q.content_type)
             THEN Reject(q, HTTPException(400, "File must be an image"))
             ELSE [q EXCEPT !.st = "reading", !.trace = @ \o <<"validated">>]

\* predict_soil_debug: the soil_model check only
PredictSoilDebugEntry(r, soil) ==
    IF ~soil.loaded
    THEN Reject(r, HTTPException(503, "Soil model not loaded"))
    ELSE [r EXCEPT !.st = "reading"]

\* `await file.read()` raises inside the try of a handler
ReadFailed(r) ==
    Reject(r, IF r.endpoint = "/soil-predict-debug"
              THEN DebugPredictionFailed("OSError")
              ELSE PredictionFailed("OSError"))

\* health_check
HealthCheck(r, m, names, soil, soil_names) ==
    [r EXCEPT !.st = "done", !.trace = @ \o <<"responding">>,
              !.resp = [status |-> 200, detail |-> "", exc |-> "", headers |-> NoHeaders,
                        body |-> [EmptyBody EXCEPT
                                    !.model_loaded = m.loaded,
                                    !.num_classes = Len(names),
                                    !.soil_model_loaded = soil.loaded,
                                    !.soil_classes = IF soil.loaded THEN Len(soil_names) ELSE 0]]]

\* root
Root(r, m, names) ==
    [r EXCEPT !.st = "done", !.trace = @ \o <<"responding">>,
              !.resp = [status |-> 200, detail |-> "", exc |-> "", headers |-> NoHeaders,
                        body |-> [EmptyBody EXCEPT
                                    !.model_loaded = m.loaded,
                                    !.num_classes = Len(names),
                                    !.model_file = "plant_disease_recog_model_pwp.keras"]]]

(***************************************************************************)
(* State.                                                                  *)
(***************************************************************************)
VARIABLES
    model_file,           \* the file plant_disease_recog_model_pwp.keras
    soil_model_file,      \* the file soil_model.keras
    pc,                   \* position of the module's top-level code
    exit_code,            \* sys.exit status, -1 while the process runs
    model,                \* the disease classifier
    CLASS_NAMES,
    soil_model,           \* the soil classifier, NoModel for None
    SOIL_CLASS_NAMES,
    SOIL_RECOMMENDATIONS,
    app,                  \* whether the FastAPI application exists
    now,                  \* the clock, in milliseconds
    tmp_files,            \* /tmp: path -> content, "" for no file or an empty one
    reqs,                 \* the requests
    score_vals            \* the scores the classifiers can return

globals == <<model, CLASS_NAMES, soil_model, SOIL_CLASS_NAMES, SOIL_RECOMMENDATIONS>>
vars == <<model_file, soil_model_file, pc, exit_code, model, CLASS_NAMES, soil_model, SOIL_CLASS_NAMES,
          SOIL_RECOMMENDATIONS, app, now, tmp_files, reqs, score_vals>>

ReqIds == 1..MaxReq

\* the scores a classifier of C outputs can return
InitCommon ==
    /\ model_file \in ModelFiles(ModelDims)
    /\ soil_model_file \in ModelFiles(SoilModelDims)
    /\ pc = "load_model"
    /\ exit_code = -1
    /\ model = NoModel
    /\ CLASS_NAMES = << >>
    /\ soil_model = NoModel
    /\ SOIL_CLASS_NAMES = << >>
    /\ SOIL_RECOMMENDATIONS = {}
    /\ app = FALSE
    /\ now = 0
    /\ tmp_files = [p \in TmpPaths |-> ""]

\* one request, classifiers that can return any score
Init ==
    /\ InitCommon
    /\ reqs = [i \in ReqIds |-> IF i = 1 THEN NewRequest
                                ELSE [NewRequest EXCEPT !.st = "absent"]]
    /\ score_vals = ScoreVals

\* MaxReq concurrent requests, a good disease model of two classes, classifiers
\* that return finite scores
\* the soil model files and classifier score domains of the concurrent
\* specification: no soil model; one with 3 outputs, with finite scores or
\* with infinite ones; one with more outputs than there are soil labels
ConcurrentRuns ==
    {[soil_model_file |-> [kind |-> "absent", C |-> 0], score_vals |-> SmallScoreVals],
     [soil_model_file |-> [kind |-> "good", C |-> 3], score_vals |-> SmallScoreVals],
     [soil_model_file |-> [kind |-> "good", C |-> 3], score_vals |-> {PosInf, NegInf}],
     [soil_model_file |-> [kind |-> "good", C |-> 6], score_vals |-> SmallScoreVals]}

InitConc ==
    /\ InitCommon
    /\ model_file = [kind |-> "good", C |-> 2]
    /\ \E cfg \in ConcurrentRuns :
          soil_model_file = cfg.soil_model_file /\ score_vals = cfg.score_vals
    /\ reqs = [i \in ReqIds |-> NewRequest]

(***************************************************************************)
(* Startup: the module's top-level code.                                   *)
(***************************************************************************)
\* lines 41-88: the model file, load_model, the dummy prediction
LoadModel ==
    /\ pc = "load_model"
    /\ model' = LoadPrimary(model_file).model
    /\ exit_code' = LoadPrimary(model_file).exit
    /\ pc' = IF LoadPrimary(model_file).exit = -1 THEN "class_names" ELSE "exited"
    /\ UNCHANGED <<model_file, soil_model_file, CLASS_NAMES, soil_model, SOIL_CLASS_NAMES,
                   SOIL_RECOMMENDATIONS, app, now, tmp_files, reqs, score_vals>>

\* lines 96-145: CLASS_NAMES and "Verify class count"
DefineClassNames ==
    /\ pc = "class_names"
    /\ CLASS_NAMES' = ReconcileClassNames(ConfiguredClassNames, model.C)
    /\ pc' = "load_soil_model"
    /\ UNCHANGED <<model_file, soil_model_file, exit_code, model, soil_model, SOIL_CLASS_NAMES, SOIL_RECOMMENDATIONS,
                   app, now, tmp_files, reqs, score_vals>>

\* lines 163-183: the soil model, optional
LoadSoilModel ==
    /\ pc = "load_soil_model"
    /\ soil_model' = LoadSoil(soil_model_file)
    /\ pc' = "soil_tables"
    /\ UNCHANGED <<model_file, soil_model_file, exit_code, model, CLASS_NAMES, SOIL_CLASS_NAMES, SOIL_RECOMMENDATIONS,
                   app, now, tmp_files, reqs, score_vals>>

\* lines 191-272: SOIL_CLASS_NAMES and SOIL_RECOMMENDATIONS
DefineSoilTables ==
    /\ pc = "soil_tables"
    /\ SOIL_CLASS_NAMES' = ConfiguredSoilClassNames
    /\ SOIL_RECOMMENDATIONS' = ConfiguredSoilRecommendations
    /\ pc' = "create_app"
    /\ UNCHANGED <<model_file, soil_model_file, exit_code, model, CLASS_NAMES, soil_model,
                   app, now, tmp_files, reqs, score_vals>>

\* lines 349-362 and uvicorn.run: the application exists and serves
CreateApp ==
    /\ pc = "create_app"
    /\ app' = TRUE
    /\ pc' = "serving"
    /\ UNCHANGED <<model_file, soil_model_file, exit_code, model, CLASS_NAMES, soil_model, SOIL_CLASS_NAMES,
                   SOIL_RECOMMENDATIONS, now, tmp_files, reqs, score_vals>>

\* time passes
Tick ==
    /\ now < MaxClock
    /\ now' = now + 1
    /\ UNCHANGED <<model_file, soil_model_file, pc, exit_code, model, CLASS_NAMES, soil_model, SOIL_CLASS_NAMES,
                   SOIL_RECOMMENDATIONS, app, tmp_files, reqs, score_vals>>

(***************************************************************************)
(* Requests.  A handler runs without interruption up to                    *)
(* `await file.read()` and from there to its end.                          *)
(***************************************************************************)
Serving == pc = "serving" /\ app

\* mutant of Unchanged_but_reqs: a handler appends a placeholder label to
\* CLASS_NAMES, as the startup code does
Unchanged_but_reqs_and_names ==
    /\ CLASS_NAMES' = Append(CLASS_NAMES, UnknownClass(Len(CLASS_NAMES) + 1))
    /\ UNCHANGED <<model_file, soil_model_file, pc, exit_code, model, soil_model,
                   SOIL_CLASS_NAMES, SOIL_RECOMMENDATIONS, app, now, tmp_files, score_vals>>

Unchanged_but_reqs ==
    UNCHANGED <<model_file, soil_model_file, pc, exit_code, model, CLASS_NAMES, soil_model, SOIL_CLASS_NAMES,
                SOIL_RECOMMENDATIONS, app, now, tmp_files, score_vals>>

PredictArrive(i) ==
    /\ Serving /\ reqs[i].st = "new"
    /\ \E ct \in ContentTypes, b \in UploadBytes :
          reqs' = [reqs EXCEPT ![i] = PredictDiseaseEntry(Arrived("/predict", ct, b), now)]
    /\ Unchanged_but_reqs

SoilArrive(i) ==
    /\ Serving /\ reqs[i].st = "new"
    /\ \E ct \in ContentTypes, b \in UploadBytes :
          reqs' = [reqs EXCEPT
                     ![i] = PredictSoilEntry(Arrived("/soil-predict", ct, b), soil_model, now)]
    /\ Unchanged_but_reqs

SoilDebugArrive(i) ==
    /\ Serving /\ reqs[i].st = "new"
    /\ \E ct \in ContentTypes, b \in UploadBytes :
          reqs' = [reqs EXCEPT
                     ![i] = PredictSoilDebugEntry(Arrived("/soil-predict-debug", ct, b), soil_model)]
    /\ Unchanged_but_reqs

Health(i) ==
    /\ Serving /\ reqs[i].st = "new"
    /\ reqs' = [reqs EXCEPT
                  ![i] = HealthCheck(Arrived("/health", "none", ""), model, CLASS_NAMES,
                                     soil_model, SOIL_CLASS_NAMES)]
    /\ Unchanged_but_reqs

GetRoot(i) ==
    /\ Serving /\ reqs[i].st = "new"
    /\ reqs' = [reqs EXCEPT ![i] = Root(Arrived("/", "none", ""), model, CLASS_NAMES)]
    /\ Unchanged_but_reqs

PredictResume(i) ==
    /\ Serving /\ reqs[i].st = "reading" /\ reqs[i].endpoint = "/predict"
    /\ \E outcome \in ClassifierOutcomes(model.C, score_vals) :
          \E order \in IF outcome.raises THEN {<< >>}
                       ELSE ArgsortOutcomes(Prefix(PostProcess(outcome.out).v, Len(CLASS_NAMES))) :
             reqs' = [reqs EXCEPT ![i] = PredictDiseaseRest(reqs[i], CLASS_NAMES, outcome, order)]
    /\ Unchanged_but_reqs

SoilResume(i) ==
    /\ Serving /\ reqs[i].st = "reading" /\ reqs[i].endpoint = "/soil-predict"
    /\ \E write \in WriteOutcomes, outcome \in ClassifierOutcomes(soil_model.C, score_vals) :
          \E order \in IF outcome.raises THEN {<< >>}
                       ELSE ArgsortOutcomes(PostProcess(outcome.out).v) :
             LET path == DebugPath("soil_upload", now)
                 write_ok == write = "ok"
             IN  /\ tmp_files' = WriteDebugFile(tmp_files, path, reqs[i].image_bytes, write)
                 /\ reqs' = [reqs EXCEPT
                               ![i] = PredictSoilRest(reqs[i], SOIL_CLASS_NAMES,
                                                      SOIL_RECOMMENDATIONS,
                                                      IF write_ok THEN path ELSE NoPath,
                                                      outcome, order)]
    /\ UNCHANGED <<model_file, soil_model_file, pc, exit_code, model, CLASS_NAMES, soil_model, SOIL_CLASS_NAMES,
                   SOIL_RECOMMENDATIONS, app, now, score_vals>>

SoilDebugResume(i) ==
    /\ Serving /\ reqs[i].st = "reading" /\ reqs[i].endpoint = "/soil-predict-debug"
    /\ \E write \in WriteOutcomes, non_finite \in NonFiniteSerialisations,
          outcome \in ClassifierOutcomes(soil_model.C, score_vals) :
          \E order \in IF outcome.raises THEN {<< >>}
                       ELSE ArgsortOutcomes(PostProcess(outcome.out).v) :
             LET path == DebugPath("soil_debug", now)
             IN  /\ tmp_files' = WriteDebugFile(tmp_files, path, reqs[i].image_bytes, write)
                 /\ reqs' = [reqs EXCEPT
                               ![i] = PredictSoilDebugRest(reqs[i], SOIL_CLASS_NAMES, path,
                                                           write = "ok", non_finite,
                                                           outcome, order)]
    /\ UNCHANGED <<model_file, soil_model_file, pc, exit_code, model, CLASS_NAMES, soil_model, SOIL_CLASS_NAMES,
                   SOIL_RECOMMENDATIONS, app, now, score_vals>>

\* the upload cannot be read: `await file.read()` raises
ReadFails(i) ==
    /\ Serving /\ reqs[i].st = "reading"
    /\ reqs' = [reqs EXCEPT ![i] = ReadFailed(reqs[i])]
    /\ Unchanged_but_reqs

Next ==
    \/ LoadModel
    \/ DefineClassNames
    \/ LoadSoilModel
    \/ DefineSoilTables
    \/ CreateApp
    \/ Tick
    \/ \E i \in ReqIds : PredictArrive(i)
    \/ \E i \in ReqIds : SoilArrive(i)
    \/ \E i \in ReqIds : SoilDebugArrive(i)
    \/ \E i \in ReqIds : Health(i)
    \/ \E i \in ReqIds : GetRoot(i)
    \/ \E i \in ReqIds : PredictResume(i)
    \/ \E i \in ReqIds : SoilResume(i)
    \/ \E i \in ReqIds : SoilDebugResume(i)
    \/ \E i \in ReqIds : ReadFails(i)

Spec == Init /\ [][Next]_vars
SpecConc == InitConc /\ [][Next]_vars

(***************************************************************************)
(* Properties.                                                             *)
(***************************************************************************)
Arrivals == {i \in ReqIds : reqs[i].st \in {"reading", "done"}}
Finished == {i \in ReqIds : reqs[i].st = "done"}
\* the requests whose classifier returned a vector that was post-processed
PostProcessed == {i \in Finished : reqs[i].raw # << >>}
ClassifierCalls(r) == r.model_calls + r.soil_model_calls
Constant(arr) == \A i, j \in DOMAIN arr : arr[i] = arr[j]
\* the entries of a post-processed vector add up to 1
SumsToOne(pred) ==
    /\ \A i \in DOMAIN pred.v : IsFin(pred.v[i])
    /\ SeqSum([i \in DOMAIN pred.v |-> pred.v[i].n]) = pred.den

\* C1: a /predict request whose content-type is missing or does not start
\* with "image/" is answered 400, and neither preprocessing nor a classifier
\* ran for it.
C1_NonImageRejectedBeforeModel ==
    \A i \in Arrivals :
        (reqs[i].endpoint = "/predict" /\ NotAnImage(reqs[i].content_type)) =>
            /\ reqs[i].st = "done"
            /\ reqs[i].resp.status = 400
            /\ reqs[i].preprocess_calls = 0
            /\ ClassifierCalls(reqs[i]) = 0
            /\ "preprocessing" \notin Range(reqs[i].trace)
            /\ "inferring" \notin Range(reqs[i].trace)

C1_Witness ==
    \E i \in Finished :
        /\ reqs[i].endpoint = "/predict"
        /\ reqs[i].content_type = "text/plain"
        /\ reqs[i].image_bytes = "img"
        /\ reqs[i].resp.status = 400

\* C2: when the soil model file is absent, or its load or self-test raises,
\* startup goes on with soil_model None: the process does not exit, /health
\* reports soil_model_loaded false, every /soil-predict request is answered
\* 503 with no classifier call whatever its content-type, and /predict is
\* still served (never 503, and open to a new request).
SoilUnavailable == soil_model_file.kind # "good"
PastSoilLoading == pc \in {"soil_tables", "create_app", "serving"}

C2_SoilOptional ==
    (SoilUnavailable /\ PastSoilLoading) =>
        /\ ~soil_model.loaded
        /\ exit_code = -1
        /\ \A i \in Arrivals :
              /\ reqs[i].endpoint = "/health" => ~reqs[i].resp.body.soil_model_loaded
              /\ reqs[i].endpoint = "/soil-predict" =>
                    /\ reqs[i].st = "done"
                    /\ reqs[i].resp.status = 503
                    /\ ClassifierCalls(reqs[i]) = 0
                    /\ reqs[i].preprocess_calls = 0
              /\ reqs[i].endpoint = "/predict" => reqs[i].resp.status # 503
        /\ \A i \in ReqIds :
              (Serving /\ reqs[i].st = "new") => ENABLED PredictArrive(i)

C2_Witness ==
    \E i \in Finished :
        /\ soil_model_file.kind = "absent"
        /\ reqs[i].endpoint = "/soil-predict"
        /\ reqs[i].content_type = "image/png"
        /\ reqs[i].resp.status = 503

\* C3: when the primary model file is absent, fails to load or fails the
\* self-test, the process exits with a non-zero status before the
\* application is created; so a request is handled only in a process whose
\* primary classifier loaded and passed the self-test.
C3_PrimaryFailureIsFatal ==
    /\ (model_file.kind # "good" /\ pc # "load_model") =>
          /\ pc = "exited"
          /\ exit_code # 0 /\ exit_code # -1
          /\ ~app
    /\ pc = "exited" => (~app /\ Arrivals = {})
    /\ Arrivals # {} => (model_file.kind = "good" /\ model.loaded /\ exit_code = -1)

C3_Witness ==
    /\ model_file.kind = "broken"
    /\ model.loaded
    /\ pc = "exited"
    /\ exit_code = 1

\* C4 (as claimed): a raw score vector with a NaN or an Infinity entry,
\* positive or negative, is answered 500 by /predict and /soil-predict,
\* never 200.
C4_NonFiniteAlwaysRejected ==
    \A i \in PostProcessed :
        (/\ reqs[i].endpoint \in {"/predict", "/soil-predict"}
         /\ (AnyNaN(reqs[i].raw) \/ AnyInf(reqs[i].raw))) =>
            reqs[i].resp.status = 500

\* C5 (as claimed): a raw score vector whose entries are all equal is
\* answered 500 on every endpoint that post-processes a score vector.
C5_ConstantAlwaysRejected ==
    \A i \in PostProcessed :
        (/\ reqs[i].endpoint \in {"/predict", "/soil-predict", "/soil-predict-debug"}
         /\ Constant(reqs[i].raw)) =>
            reqs[i].resp.status = 500

\* C6 (as claimed): on the three endpoints, a raw vector whose sum is within
\* 0.01 of 1.0 is left unchanged, and every other raw vector is turned into
\* one that sums to 1.0.
SumNearOne(raw) ==
    IsFin(NpSum(raw)) /\ Abs(NpSum(raw).n - One) <= Tolerance
Unchanged(r) == r.pred.v = r.raw /\ r.pred.den = One

C6_SoftmaxIffFarFromOne ==
    \A i \in PostProcessed :
        IF SumNearOne(reqs[i].raw)
        THEN Unchanged(reqs[i])
        ELSE SumsToOne(reqs[i].pred)

\* C6 (amended): on the three endpoints, a raw vector whose sum is within
\* 0.01 of 1.0 is left unchanged; so is a raw vector whose sum is NaN (it has
\* a NaN entry, or both infinities); every other raw vector whose maximum is
\* finite is turned into one that sums to 1.0, and one whose maximum is not
\* finite into a vector of NaN.
C6_SoftmaxIffFarFromOneFinite ==
    \A i \in PostProcessed :
        LET raw == reqs[i].raw
        IN  IF SumNearOne(raw) \/ IsNaN(NpSum(raw))
            THEN Unchanged(reqs[i])
            ELSE IF \E k \in DOMAIN raw : IsFin(raw[k]) /\ \A j \in DOMAIN raw : ScoreLeq(raw[j], raw[k])
            THEN SumsToOne(reqs[i].pred) /\ ~Unchanged(reqs[i])
            ELSE \A k \in DOMAIN raw : IsNaN(reqs[i].pred.v[k])

\* a sum just outside the tolerance (1.02), on each of the three endpoints,
\* is seen by three requests; the witness is one of them
C6_Witness ==
    \E i \in PostProcessed :
        /\ reqs[i].endpoint = "/soil-predict-debug"
        /\ reqs[i].raw = <<Fin(520), Fin(500), Fin(0)>>
        /\ SumsToOne(reqs[i].pred)
        /\ reqs[i].resp.status = 200

\* C7 (as claimed): the top_3 of a 200 response of /predict and
\* /soil-predict is in descending order of confidence, has min(3, number of
\* classes) entries, names no class twice, and lists entries of equal
\* confidence in ascending index order.
C7_TopKOrderedTiesAscending ==
    \A i \in PostProcessed :
        (reqs[i].endpoint \in {"/predict", "/soil-predict"} /\ reqs[i].resp.status = 200) =>
            LET top == reqs[i].resp.body.top
            IN  /\ Len(top) = Min2(3, Len(reqs[i].raw))
                /\ \A a, b \in DOMAIN top : a < b =>
                      /\ ScoreLeq(top[b].confidence, top[a].confidence)
                      /\ top[a].label # top[b].label
                      /\ top[a].confidence = top[b].confidence => top[a].label < top[b].label

\* C8 (as claimed): every response of /predict and /soil-predict, whatever
\* its status, carries the three no-cache headers, the prediction source
\* and the request id.
C8_HeadersOnEveryResponse ==
    \A i \in Finished :
        reqs[i].endpoint \in {"/predict", "/soil-predict"} =>
            LET h == reqs[i].resp.headers
            IN  /\ h.cache_control = "no-store, no-cache, must-revalidate, max-age=0"
                /\ h.pragma = "no-cache"
                /\ h.expires = "0"
                /\ h.x_prediction_source # ""
                /\ h.x_request_id # NoId

\* C9 (as claimed): with the soil model loaded, a /soil-predict-debug
\* request whose content-type does not start with "image/", or whose bytes
\* are no image, is answered 400 and the soil classifier is not called
\* (stated for the requests whose upload was read and copied without an
\* I/O error).
C9_DebugUploadContract ==
    \A i \in Finished :
        (/\ reqs[i].endpoint = "/soil-predict-debug"
         /\ soil_model.loaded
         /\ reqs[i].resp.exc # "OSError"
         /\ (NotAnImage(reqs[i].content_type) \/ ~Decodable(reqs[i].image_bytes))) =>
            /\ reqs[i].resp.status = 400
            /\ ClassifierCalls(reqs[i]) = 0

\* C10 (as claimed): on /soil-predict and /soil-predict-debug a request
\* whose debug copy could not be written still goes on to preprocessing,
\* and to inference when its bytes are an image.
C10_DebugWriteFailureNotFatal ==
    \A i \in Finished :
        (/\ reqs[i].endpoint \in {"/soil-predict", "/soil-predict-debug"}
         /\ reqs[i].write_failed) =>
            /\ reqs[i].preprocess_calls = 1
            /\ Decodable(reqs[i].image_bytes) => reqs[i].soil_model_calls = 1

\* C11 (as claimed): once the server serves, the label set of each loaded
\* classifier has as many labels as the classifier has outputs, and the
\* configured labels kept are at their own positions.
C11_LabelSetsMatchModels ==
    Serving =>
        /\ Len(CLASS_NAMES) = model.C
        /\ \A k \in DOMAIN CLASS_NAMES :
              k <= NumClassNames => CLASS_NAMES[k] = ConfiguredClassNames[k]
        /\ soil_model.loaded =>
              /\ Len(SOIL_CLASS_NAMES) = soil_model.C
              /\ \A k \in DOMAIN SOIL_CLASS_NAMES :
                    k <= NumSoilClassNames => SOIL_CLASS_NAMES[k] = ConfiguredSoilClassNames[k]

\* C12: a request that an exception ended (the classifier raised, an index
\* was out of range, the upload could not be read, the response could not be
\* serialised) is answered 500; the process keeps serving whatever requests
\* failed before: it has not exited, and every request that has not arrived
\* yet can arrive at each prediction endpoint.
C12_ExceptionsAnswered500 ==
    /\ \A i \in Finished : reqs[i].resp.exc # "" => reqs[i].resp.status = 500
    /\ Arrivals # {} => (Serving /\ exit_code = -1)
    /\ \A j \in ReqIds :
          (Serving /\ reqs[j].st = "new") =>
              /\ ENABLED PredictArrive(j)
              /\ ENABLED SoilArrive(j)
              /\ ENABLED SoilDebugArrive(j)

\* a request failed on an index error of the soil handler, another one is
\* answered 200
C12_Witness ==
    \E i, j \in Finished :
        /\ reqs[i].resp.exc = "IndexError"
        /\ reqs[i].resp.status = 500
        /\ reqs[j].endpoint = "/predict"
        /\ reqs[j].resp.status = 200

\* C13 (as claimed): a /predict or /soil-predict request goes through
\* received, validated, preprocessing, inferring, postprocessing, responding
\* in this order, none skipped or repeated, and may fail after any of them;
\* its classifier is called at most once, and only for an image content-type
\* and decodable bytes, after preprocessing; a finished request ended either
\* in responding, with status 200, or in failed, with another status, and
\* never went through both responding and failed.
Pipeline ==
    <<"received", "validated", "preprocessing", "inferring", "postprocessing", "responding">>
IsPrefixOf(s, t) == Len(s) <= Len(t) /\ \A k \in DOMAIN s : s[k] = t[k]
Steps(trace) ==
    IF trace # << >> /\ trace[Len(trace)] = "failed"
    THEN SubSeq(trace, 1, Len(trace) - 1)
    ELSE trace
InOrderCalledOnce(r) ==
    LET steps == Steps(r.trace)
    IN  /\ steps # << >>
        /\ IsPrefixOf(steps, Pipeline)
        /\ r.preprocess_calls <= 1
        /\ ClassifierCalls(r) <= 1
        /\ r.preprocess_calls = 1 <=> "preprocessing" \in Range(steps)
        /\ ClassifierCalls(r) = 1 <=> "inferring" \in Range(steps)
        /\ r.endpoint = "/predict" => r.soil_model_calls = 0
        /\ r.endpoint = "/soil-predict" => r.model_calls = 0
        /\ ClassifierCalls(r) = 1 =>
              /\ ~NotAnImage(r.content_type)
              /\ Decodable(r.image_bytes)
              /\ r.preprocess_calls = 1
        /\ r.st = "reading" => r.trace = <<"received", "validated">>

InUnitInterval(x, den) == IsFin(x) /\ 0 <= x.n /\ x.n <= den

C14_ValidDistribution ==
    \A i \in PostProcessed :
        (reqs[i].endpoint \in {"/predict", "/soil-predict"} /\ reqs[i].resp.status = 200) =>
            LET pred == reqs[i].pred
                body == reqs[i].resp.body
            IN  /\ SumsToOne(pred)
                /\ \A k \in DOMAIN pred.v : pred.v[k].n >= 0
                /\ InUnitInterval(body.confidence, body.den)
                /\ \A k \in DOMAIN body.top : InUnitInterval(body.top[k].confidence, body.den)

\* C15 (as claimed): when the label set is shorter than the classifier's
\* output, a score vector that is finite and not constant is answered 200 by
\* the disease, soil and soil-debug handlers (no index error).
C15_ShortLabelSetHandled ==
    \A i \in PostProcessed :
        LET names == IF reqs[i].endpoint = "/predict" THEN CLASS_NAMES ELSE SOIL_CLASS_NAMES
        IN  (/\ Len(names) < Len(reqs[i].raw)
             /\ JsonCompliant(reqs[i].pred.v)
             /\ ~Constant(reqs[i].pred.v)) =>
                /\ reqs[i].resp.status = 200
                /\ reqs[i].resp.exc # "IndexError"

\* C16: while the server serves, no step changes the classifiers, the label
\* sets or the recommendation table, and a step of one request leaves every
\* other request as it was.
C16_HandlersKeepGlobals ==
    [][Serving =>
          /\ globals' = globals
          /\ \A i, j \in ReqIds :
                (i # j /\ reqs'[i] # reqs[i]) => reqs'[j] = reqs[j]]_vars

\* two requests were answered 200, by different classifiers
C16_Witness ==
    \E i, j \in Finished :
        /\ reqs[i].endpoint = "/predict" /\ reqs[i].resp.status = 200
        /\ reqs[j].endpoint = "/soil-predict" /\ reqs[j].resp.status = 200
        /\ CLASS_NAMES = ReconcileClassNames(ConfiguredClassNames, model.C)
        /\ SOIL_CLASS_NAMES = ConfiguredSoilClassNames

\* C17 (as claimed): in every 200 response of /predict and /soil-predict to
\* a finite score vector, the first entry of top_3 has the label and the
\* confidence of the top prediction.
C17_TopOfTop3IsTopPrediction ==
    \A i \in PostProcessed :
        (/\ reqs[i].endpoint \in {"/predict", "/soil-predict"}
         /\ reqs[i].resp.status = 200
         /\ \A k \in DOMAIN reqs[i].raw : IsFin(reqs[i].raw[k])) =>
            LET body == reqs[i].resp.body
            IN  /\ body.top # << >>
                /\ body.top[1].label = body.label
                /\ body.top[1].confidence = body.confidence

\* C18 (as claimed): two requests never have the same request id, and the
\* debug_file_path of a /soil-predict response names a file that holds the
\* bytes uploaded in that request.
C18_UniqueIdsAndOwnDebugFile ==
    /\ \A i, j \in Arrivals :
          (i # j /\ reqs[i].request_id # NoId) => reqs[i].request_id # reqs[j].request_id
    /\ \A i \in Finished :
          (/\ reqs[i].endpoint = "/soil-predict"
           /\ reqs[i].resp.status = 200
           /\ reqs[i].resp.body.debug_file_path # NoPath) =>
              tmp_files[reqs[i].resp.body.debug_file_path] = reqs[i].image_bytes
====
